---- MODULE Spec2Model ----
(***************************************************************************)
(* folder-to-usb: smart_copy_to_pendrive (src/main.py) and the simulation  *)
(* script (src/simulate_main.py), as a state machine over a small source   *)
(* tree, three exclusion sets and a destination file system.               *)
(*                                                                         *)
(* A name is a sequence of characters, a path a sequence of names.         *)
(***************************************************************************)
EXTENDS Naturals, Sequences, FiniteSets, Bags, TLC

\* ------------------------------------------------------------- universe

\* Most files a source tree holds.
MaxFiles == 2

\* File names ("nm" is also a directory name) and the directories of the universe
\* (the directory name "s.d" ends with the extension ".d"): an excluded name at
\* depth 1 and at depth 2, and an excluded name nested in an excluded directory.
FileNames == {"a.t", "b.D", "c.d", "nm"}
AllDirs == {<<>>, <<"nm">>, <<"s.d">>, <<"nm", "nm">>, <<"s.d", "nm">>}
AllFiles == {d \o <<n>> : d \in AllDirs, n \in FileNames}

\* the characters of the names and extensions of the universe
chars ==
    [n \in {"nm", "s.d", "a.t", "b.D", "c.d", ".d"} |->
        CASE n = "nm" -> <<"n", "m">>
          [] n = "s.d" -> <<"s", ".", "d">>
          [] n = "a.t" -> <<"a", ".", "t">>
          [] n = "b.D" -> <<"b", ".", "D">>
          [] n = "c.d" -> <<"c", ".", "d">>
          [] n = ".d" -> <<".", "d">>]

IsPrefix(p, q) == Len(p) <= Len(q) /\ SubSeq(q, 1, Len(p)) = p

\* A tree's files: no file sits where another file's directory is.
WellFormed(T) == \A p \in T : \A q \in T : p = q \/ ~IsPrefix(p, q)

RECURSIVE FileSets(_)
FileSets(k) ==
    IF k = 0 THEN {{}}
    ELSE LET prev == FileSets(k - 1)
         IN  prev \cup {T \cup {f} : T \in prev, f \in AllFiles}

Trees == {T \in FileSets(MaxFiles) : WellFormed(T)}

\* The exclusion sets a run is given.
DirSets == {{}, {"nm"}}
ExtSets == {{}, {".d"}}
NameSets == {{}, {"a.t"}}

\* ------------------------------------------------------------- os.path

src_folder == <<"C:", "p">>

join(a, b) == a \o b

basename(path) == path[Len(path)]

\* os.path.relpath(path, start), start being a prefix of path: "." for start itself
relpath(path, start) ==
    IF path = start THEN <<".">> ELSE SubSeq(path, Len(start) + 1, Len(path))

\* the location a path names: its "." components dropped
normpath(path) == SelectSeq(path, LAMBDA c : c # ".")

\* name.endswith(ext)
endswith(name, ext) ==
    LET n == chars[name]
        e == chars[ext]
    IN  Len(e) <= Len(n) /\ SubSeq(n, Len(n) - Len(e) + 1, Len(n)) = e

lower_char(c) == IF c = "D" THEN "d" ELSE c

lower(s) == [i \in 1..Len(s) |-> lower_char(s[i])]

\* os.path.splitext(name)[1]: from the last dot, unless only dots precede it
splitext_ext(name) ==
    LET n == chars[name]
        dots == {i \in 1..Len(n) : n[i] = "."}
    IN  IF dots = {} THEN <<>>
        ELSE LET d == CHOOSE i \in dots : \A j \in dots : j <= i
             IN  IF \E j \in 1..(d - 1) : n[j] # "."
                 THEN SubSeq(n, d, Len(n))
                 ELSE <<>>

\* ------------------------------------------------------------ the state

VARIABLES
    src_tree,           \* the source tree: the paths of its files
    ignore_dirs, ignore_exts, ignore_files,
    removable,          \* the drive letters that are removable drives
    plan, run,          \* the runs made one after the other, and the current one
    pc, error,          \* where the current run is, and what ended it
    pendrive_root, dest_folder, total_files,
    stack,              \* os.walk: the directories still to be yielded
    root, files, rel_path, dest_path,
    dest_dirs, dest_files,      \* the destination file system
    log,                \* the logging records, a bag
    resolves,           \* calls of find_pendrive in the current run
    ignored_dirs,
    total_copy_size, total_ignored_size, copied_ext_stats, ignored_ext_stats,
    report,             \* the lines written to simulated_copy_log.txt, a bag
    tally,              \* which file was added to which bucket, a bag
    unsized,            \* the files skipped because getsize raised, a bag
    prev_dirs, prev_files,      \* the destination when the current run started
    ended               \* how the runs before the current one ended

inputs == <<src_tree, ignore_dirs, ignore_exts, ignore_files, removable, plan>>
walkVars == <<stack, root, files, rel_path, dest_path>>
copyVars == <<pendrive_root, dest_folder, total_files, resolves>>
destVars == <<dest_dirs, dest_files>>
simVars == <<ignored_dirs, total_copy_size, total_ignored_size, copied_ext_stats,
             ignored_ext_stats, report, tally, unsized>>
prevVars == <<prev_dirs, prev_files, ended>>
vars == <<inputs, run, pc, error, walkVars, copyVars, destVars, log, simVars, prevVars>>

mode == plan[run]
\* the dry_run flag is not passed on
dry_run_off == FALSE

dry_run == mode = "dry"

\* --------------------------------------------------------- the source tree

listdirs(top) ==
    {g[Len(top) + 1] : g \in {f \in src_tree : IsPrefix(top, f) /\ Len(f) > Len(top) + 1}}

listfiles(top) ==
    {g[Len(g)] : g \in {f \in src_tree : IsPrefix(top, f) /\ Len(f) = Len(top) + 1}}

\* os.path.getsize of a file of the universe
getsize(f) == Len(chars[f[Len(f)]]) + Len(f)

\* the orders in which a listing may give a set of names
Orders(S) ==
    {o \in [1..Cardinality(S) -> S] : \A i, j \in 1..Cardinality(S) : o[i] = o[j] => i = j}

\* ------------------------------------------------------------- main.py

ascii_uppercase == <<"E", "F">>

is_pendrive(letter) == letter \in removable

\* a drive root is returned even when no drive is removable
find_pendrive_fallback ==
    LET hits == {i \in 1..Len(ascii_uppercase) : is_pendrive(ascii_uppercase[i])}
    IN  IF hits = {} THEN <<ascii_uppercase[1]>>
        ELSE <<ascii_uppercase[CHOOSE i \in hits : \A j \in hits : i <= j]>>

\* the first removable drive's root, or <<>> when it raises RuntimeError
find_pendrive ==
    LET hits == {i \in 1..Len(ascii_uppercase) : is_pendrive(ascii_uppercase[i])}
    IN  IF hits = {} THEN <<>>
        ELSE <<ascii_uppercase[CHOOSE i \in hits : \A j \in hits : i <= j]>>

\* should_ignore with the extension matched whatever its case
should_ignore_nocase(name, dirs, exts, names) ==
    \/ name \in dirs
    \/ name \in names
    \/ \E ext \in exts :
         LET n == lower(chars[name])
             e == lower(chars[ext])
         IN  Len(e) <= Len(n) /\ SubSeq(n, Len(n) - Len(e) + 1, Len(n)) = e

\* every caller passes a bare name, whose os.path.basename is the name itself
should_ignore(path, dirs, exts, names) ==
    LET name == path
    IN  \/ name \in dirs
        \/ name \in names
        \/ \E ext \in exts : endswith(name, ext)

\* dirs[:] = [d for d in dirs if not should_ignore(d, ignore_dirs, set(), set())]
kept_dirs(top) == {d \in listdirs(top) : ~should_ignore(d, ignore_dirs, {}, {})}

\* should_ignore(file, set(), ignore_exts, ignore_files)
file_ignored(file) == should_ignore(file, {}, ignore_exts, ignore_files)

\* the directories a pruned os.walk of top yields
RECURSIVE walked(_)
walked(top) == {top} \cup UNION {walked(join(top, <<d>>)) : d \in kept_dirs(top)}

\* the first walk, which counts the files for the progress bar
count_files ==
    Cardinality({f \in src_tree :
        SubSeq(f, 1, Len(f) - 1) \in walked(src_folder) /\ ~file_ignored(f[Len(f)])})

\* os.makedirs(dest_path) without exist_ok
exist_ok_off == FALSE

exist_ok == TRUE

\* os.makedirs(path, exist_ok): "x/." is x, made if missing and never an error
makedirs_raises(dirs, path, ok) ==
    basename(path) # "." /\ normpath(path) \in dirs /\ ~ok

makedirs(dirs, path) ==
    LET np == normpath(path) IN dirs \cup {SubSeq(np, 1, k) : k \in 1..Len(np)}

\* a logging record (cause: the exception a "Failed to copy" record names)
record(kind, src, dst, cause) ==
    [run |-> run, kind |-> kind, src |-> src, dest |-> dst, cause |-> cause]

\* the files go straight under the drive's root
dest_folder_flat(pendrive) == pendrive

\* dest_folder = os.path.join(pendrive_root, os.path.basename(src_folder))
dest_folder_of(pendrive) == join(pendrive, <<basename(src_folder)>>)

\* the exception of copy2 is not caught and ends the run
after_copy_error_abort(next) == "raised"

\* except Exception as e: logging.error(...), and the loop goes on
after_copy_error(next) == next

\* logging.basicConfig; pendrive_root = find_pendrive(); dest_folder = ...
Resolve ==
    /\ pc = "start" /\ mode \in {"dry", "execute"}
    /\ resolves' = resolves + 1
    /\ IF find_pendrive = <<>>
       THEN /\ pc' = "raised" /\ error' = "RuntimeError"
            /\ UNCHANGED <<pendrive_root, dest_folder>>
       ELSE /\ pendrive_root' = find_pendrive
            /\ dest_folder' = dest_folder_of(find_pendrive)
            /\ pc' = "count" /\ UNCHANGED error
    /\ UNCHANGED <<inputs, run, walkVars, total_files, destVars, log, simVars, prevVars>>

\* the counting walk, and iterator = os.walk(src_folder)
CountFiles ==
    /\ pc = "count"
    /\ total_files' = count_files
    /\ stack' = <<src_folder>>
    /\ pc' = "walk"
    /\ UNCHANGED <<inputs, run, error, root, files, rel_path, dest_path, pendrive_root,
                   dest_folder, resolves, destVars, log, simVars, prevVars>>

\* one directory of the main loop, up to "for file in files"
WalkDir ==
    /\ pc = "walk" /\ mode \in {"dry", "execute"} /\ stack # <<>>
    /\ LET top == Head(stack)
           rel == relpath(top, src_folder)
           dpath == join(dest_folder, rel)
       IN  /\ root' = top
           /\ rel_path' = rel
           /\ dest_path' = dpath
           /\ \E order \in Orders(kept_dirs(top)) :
                stack' = [i \in 1..Len(order) |-> join(top, <<order[i]>>)] \o Tail(stack)
           /\ IF dry_run
              THEN /\ files' = listfiles(top)
                   /\ pc' = IF listfiles(top) = {} THEN "walk" ELSE "files"
                   /\ UNCHANGED <<error, destVars>>
              ELSE \/ /\ ~makedirs_raises(dest_dirs, dpath, exist_ok)
                      /\ dest_dirs' = makedirs(dest_dirs, dpath)
                      /\ files' = listfiles(top)
                      /\ pc' = IF listfiles(top) = {} THEN "walk" ELSE "files"
                      /\ UNCHANGED <<error, dest_files>>
                   \/ /\ makedirs_raises(dest_dirs, dpath, exist_ok)
                      /\ pc' = "raised" /\ error' = "FileExistsError"
                      /\ UNCHANGED <<files, destVars>>
                   \/ /\ pc' = "raised" /\ error' = "OSError"     \* the device fails
                      /\ UNCHANGED <<files, destVars>>
    /\ UNCHANGED <<inputs, run, copyVars, log, simVars, prevVars>>

\* one file of "for file in files"
CopyFile ==
    /\ pc = "files" /\ mode \in {"dry", "execute"}
    /\ \E file \in files :
         LET src_file == join(root, <<file>>)
             dest_file == join(dest_path, <<file>>)
             next == IF files \ {file} = {} THEN "walk" ELSE "files"
         IN  /\ files' = files \ {file}
             /\ IF file_ignored(file)
                THEN /\ pc' = next
                     /\ UNCHANGED <<log, destVars>>
                ELSE IF dry_run
                THEN /\ log' = log (+) SetToBag({record("Would copy", src_file, dest_file, "")})
                     /\ pc' = next
                     /\ UNCHANGED destVars
                ELSE \/ /\ dest_files' =    \* shutil.copy2 writes or overwrites
                             [p \in DOMAIN dest_files \cup {normpath(dest_file)} |->
                                IF p = normpath(dest_file) THEN src_file ELSE dest_files[p]]
                        /\ log' = log (+) SetToBag({record("Copied", src_file, dest_file, "")})
                        /\ pc' = next
                        /\ UNCHANGED dest_dirs
                     \* shutil.copy2 raises; what it had written by then is not kept
                     \/ /\ log' = log (+) SetToBag(
                                {record("Failed to copy", src_file, dest_file, "OSError")})
                        /\ pc' = after_copy_error(next)
                        /\ UNCHANGED destVars
    /\ UNCHANGED <<inputs, run, error, stack, root, rel_path, dest_path, copyVars,
                   simVars, prevVars>>

\* the loop is over: pbar.close() and the function returns
Return ==
    /\ pc = "walk" /\ mode \in {"dry", "execute"} /\ stack = <<>>
    /\ pc' = "done"
    /\ UNCHANGED <<inputs, run, error, walkVars, copyVars, destVars, log, simVars, prevVars>>

\* ------------------------------------------------------- simulate_main.py

test_folder == src_folder
default_dirs == ignore_dirs
default_exts == ignore_exts
default_files == ignore_files

simulated_usb == "SIMULATED_USB"

zero_stat == [count |-> 0, size |-> 0]

\* defaultdict(lambda: {'count': 0, 'size': 0})
stat_of(stats, ext) == IF ext \in DOMAIN stats THEN stats[ext] ELSE zero_stat

\* stats[ext]['count'] += 1; stats[ext]['size'] += file_size
add_stat(stats, ext, file_size) ==
    [k \in DOMAIN stats \cup {ext} |->
        IF k = ext
        THEN [count |-> stat_of(stats, ext).count + 1,
              size |-> stat_of(stats, ext).size + file_size]
        ELSE stats[k]]

\* ext = os.path.splitext(file)[1].lower()
ext_of(f) == lower(splitext_ext(f[Len(f)]))

\* the files a walk of dir_path gives that prunes the excluded names inside it
files_under_pruned(dir_path) ==
    {f \in src_tree : /\ IsPrefix(dir_path, f)
                      /\ \A i \in (Len(dir_path) + 1)..(Len(f) - 1) : f[i] \notin ignore_dirs}

\* the files an unpruned os.walk(dir_path) gives
files_under(dir_path) == {f \in src_tree : IsPrefix(dir_path, f)}

\* add_dir_ignored_stats(dir_path) over the files whose size could be read:
\* [total |-> total_ignored_size, stats |-> ignored_ext_stats] afterwards
RECURSIVE add_dir_ignored_stats(_, _, _)
add_dir_ignored_stats(sized, total, stats) ==
    IF sized = {} THEN [total |-> total, stats |-> stats]
    ELSE LET f == CHOOSE x \in sized : TRUE
         IN  add_dir_ignored_stats(sized \ {f}, total + getsize(f),
                                   add_stat(stats, ext_of(f), getsize(f)))

\* the accumulators, the ignore lists and the report's header
SimStart ==
    /\ pc = "start" /\ mode = "sim"
    /\ total_copy_size' = 0 /\ total_ignored_size' = 0
    /\ copied_ext_stats' = <<>> /\ ignored_ext_stats' = <<>>
    /\ report' = EmptyBag /\ tally' = EmptyBag /\ unsized' = EmptyBag
    /\ ignored_dirs' = {}
    /\ stack' = <<test_folder>>
    /\ pc' = "walk"
    /\ UNCHANGED <<inputs, run, error, root, files, rel_path, dest_path, copyVars,
                   destVars, log, prevVars>>

\* the walk also descends into the ignored directories
sim_kept_all(dirs, ignored) == dirs

\* dirs[:] = [d for d in dirs if d not in ignored_dirs]
sim_kept(dirs, ignored) == dirs \ ignored

after_ignored(todo, names) ==
    IF todo # {} THEN "ignored" ELSE IF names # {} THEN "files" ELSE "walk"

\* one directory of the walk loop: its ignored directories, the pruning, rel_path
SimWalkDir ==
    /\ pc = "walk" /\ mode = "sim" /\ stack # <<>>
    /\ LET top == Head(stack)
           ignored == {d \in listdirs(top) : should_ignore(d, default_dirs, {}, {})}
       IN  /\ root' = top
           /\ ignored_dirs' = ignored
           /\ \E order \in Orders(sim_kept(listdirs(top), ignored)) :
                stack' = [i \in 1..Len(order) |-> join(top, <<order[i]>>)] \o Tail(stack)
           /\ rel_path' = relpath(top, test_folder)
           /\ files' = listfiles(top)
           /\ pc' = after_ignored(ignored, listfiles(top))
    /\ UNCHANGED <<inputs, run, error, dest_path, copyVars, destVars, log,
                   total_copy_size, total_ignored_size, copied_ext_stats,
                   ignored_ext_stats, report, tally, unsized, prevVars>>

\* add_dir_ignored_stats(os.path.join(root, ignored)) for one ignored directory;
\* getsize raises for the files of skipped
AddDirIgnoredStats ==
    /\ pc = "ignored"
    /\ \E d \in ignored_dirs :
         LET under == files_under(join(root, <<d>>)) IN
         \E skipped \in SUBSET under :
            LET after == add_dir_ignored_stats(under \ skipped, total_ignored_size,
                                               ignored_ext_stats)
            IN  /\ total_ignored_size' = after.total
                /\ ignored_ext_stats' = after.stats
                /\ tally' = tally (+) SetToBag({<<"ignored", f>> : f \in under \ skipped})
                /\ unsized' = unsized (+) SetToBag(skipped)
                /\ ignored_dirs' = ignored_dirs \ {d}
                /\ pc' = after_ignored(ignored_dirs', files)
    /\ UNCHANGED <<inputs, run, error, walkVars, copyVars, destVars, log,
                   total_copy_size, copied_ext_stats, report, prevVars>>

\* one file of the walk loop's "for file in files"
SimFile ==
    /\ pc = "files" /\ mode = "sim"
    /\ \E file \in files :
         LET src_file == join(root, <<file>>)
             file_size == getsize(src_file)
             ext == ext_of(src_file)
             dest_file == join(join(<<simulated_usb>>, rel_path), <<file>>)
         IN  /\ files' = files \ {file}
             /\ pc' = IF files' = {} THEN "walk" ELSE "files"
             /\ \/ /\ unsized' = unsized (+) SetToBag({src_file})  \* getsize raised
                   /\ UNCHANGED <<total_copy_size, total_ignored_size, copied_ext_stats,
                                  ignored_ext_stats, report, tally>>
                \/ /\ should_ignore(file, {}, default_exts, default_files)
                   /\ total_ignored_size' = total_ignored_size + file_size
                   /\ ignored_ext_stats' = add_stat(ignored_ext_stats, ext, file_size)
                   /\ tally' = tally (+) SetToBag({<<"ignored", src_file>>})
                   /\ UNCHANGED <<total_copy_size, copied_ext_stats, report, unsized>>
                \/ /\ ~should_ignore(file, {}, default_exts, default_files)
                   /\ report' = report (+) SetToBag({record("Would copy", src_file, dest_file, "")})
                   /\ total_copy_size' = total_copy_size + file_size
                   /\ copied_ext_stats' = add_stat(copied_ext_stats, ext, file_size)
                   /\ tally' = tally (+) SetToBag({<<"copied", src_file>>})
                   /\ UNCHANGED <<total_ignored_size, ignored_ext_stats, unsized>>
    /\ UNCHANGED <<inputs, run, error, stack, root, rel_path, dest_path, ignored_dirs,
                   copyVars, destVars, log, prevVars>>

\* the summary and the two extension tables end the report
SimSummary ==
    /\ pc = "walk" /\ mode = "sim" /\ stack = <<>>
    /\ pc' = "done"
    /\ UNCHANGED <<inputs, run, error, walkVars, copyVars, destVars, log, simVars, prevVars>>

\* ------------------------------------------------------------- the runs

Removables == {{}, {"F"}, {"E", "F"}}

\* a source tree, three exclusion sets, the drives (none matters to the script)
\* and an empty destination
InitWith(plans, drives) ==
    /\ src_tree \in {{join(src_folder, r) : r \in T} : T \in Trees}
    /\ ignore_dirs \in DirSets /\ ignore_exts \in ExtSets /\ ignore_files \in NameSets
    /\ plan \in plans
    /\ removable \in IF \A i \in 1..Len(plan) : plan[i] = "sim" THEN {{}} ELSE drives
    /\ run = 1 /\ pc = "start" /\ error = ""
    /\ pendrive_root = <<>> /\ dest_folder = <<>> /\ total_files = 0 /\ resolves = 0
    /\ stack = <<>> /\ root = <<>> /\ files = {} /\ rel_path = <<>> /\ dest_path = <<>>
    /\ dest_dirs = {<<l>> : l \in removable} /\ dest_files = <<>>
    /\ log = EmptyBag
    /\ ignored_dirs = {}
    /\ total_copy_size = 0 /\ total_ignored_size = 0
    /\ copied_ext_stats = <<>> /\ ignored_ext_stats = <<>>
    /\ report = EmptyBag /\ tally = EmptyBag /\ unsized = EmptyBag
    /\ prev_dirs = dest_dirs /\ prev_files = dest_files /\ ended = <<>>

\* the next run of the plan starts, on the destination the last one left
StartNextRun ==
    /\ pc \in {"done", "raised"} /\ run < Len(plan)
    /\ run' = run + 1
    /\ pc' = "start" /\ error' = ""
    /\ pendrive_root' = <<>> /\ dest_folder' = <<>> /\ total_files' = 0 /\ resolves' = 0
    /\ stack' = <<>> /\ root' = <<>> /\ files' = {} /\ rel_path' = <<>> /\ dest_path' = <<>>
    /\ prev_dirs' = dest_dirs /\ prev_files' = dest_files /\ ended' = Append(ended, pc)
    /\ UNCHANGED <<inputs, destVars, log, simVars>>

Init == InitWith({<<"dry">>, <<"execute">>, <<"sim">>}, Removables)

Next ==
    \/ Resolve \/ CountFiles \/ WalkDir \/ CopyFile \/ Return
    \/ SimStart \/ SimWalkDir \/ AddDirIgnoredStats \/ SimFile \/ SimSummary

Spec == Init /\ [][Next]_vars

CopyNext == Resolve \/ CountFiles \/ WalkDir \/ CopyFile \/ Return

\* execute mode, twice, on the same source tree and destination
InitTwice == InitWith({<<"execute", "execute">>}, {{"E", "F"}})

NextTwice == CopyNext \/ StartNextRun

SpecTwice == InitTwice /\ [][NextTwice]_vars

\* a simulation (dry run or script) and then execute mode, on the same source tree
InitPair == InitWith({<<"dry", "execute">>, <<"sim", "execute">>}, {{"E", "F"}})

NextPair == Next \/ StartNextRun

SpecPair == InitPair /\ [][NextPair]_vars

\* ------------------------------------------------------------ the claims

Records(bag, r, kinds) == {rec \in BagToSet(bag) : rec.run = r /\ rec.kind \in kinds}

Selected == {"Would copy", "Copied", "Failed to copy"}

\* the file's path below the source root
Below(f) == SubSeq(f, Len(src_folder) + 1, Len(f))

\* no directory between the source root and the file is an excluded directory
\* name, and the file's name is no excluded name and ends with no excluded extension
NotExcluded(f) ==
    /\ \A i \in 1..(Len(Below(f)) - 1) : Below(f)[i] \notin ignore_dirs
    /\ basename(f) \notin ignore_files
    /\ \A ext \in ignore_exts :
         LET n == chars[basename(f)]
             e == chars[ext]
         IN  ~(Len(e) <= Len(n) /\ SubSeq(n, Len(n) - Len(e) + 1, Len(n)) = e)

(* C1: in dry-run and in execute mode, no file that is under an excluded       *)
(* directory or that has an excluded name or extension is ever selected, and   *)
(* when the run has completed the files selected (reported "Would copy", or    *)
(* handed to copy2) are exactly the files that are not excluded; a dry run     *)
(* only reports, execute mode only copies, and every file logged "Copied" is   *)
(* at its destination.                                                         *)
C1_SelectedIffNotExcluded ==
    mode \in {"dry", "execute"} =>
        /\ \A rec \in Records(log, run, Selected) :
               rec.src \in src_tree /\ NotExcluded(rec.src)
        /\ pc = "done" =>
               /\ {rec.src : rec \in Records(log, run, Selected)}
                      = {f \in src_tree : NotExcluded(f)}
               /\ dry_run => Records(log, run, {"Copied", "Failed to copy"}) = {}
               /\ ~dry_run => Records(log, run, {"Would copy"}) = {}
               /\ \A rec \in Records(log, run, {"Copied"}) :
                      /\ normpath(rec.dest) \in DOMAIN dest_files
                      /\ dest_files[normpath(rec.dest)] = rec.src

C1_Witness ==
    /\ mode = "execute" /\ pc = "done" /\ ignore_dirs = {"nm"} /\ ignore_exts = {".d"}
    /\ \E f \in src_tree : Len(Below(f)) = 3 /\ Below(f)[2] = "nm"
    /\ \E rec \in Records(log, run, {"Copied"}) : basename(rec.src) = "b.D"

RECURSIVE SumSizes(_)
SumSizes(S) ==
    IF S = {} THEN 0
    ELSE LET f == CHOOSE x \in S : TRUE IN getsize(f) + SumSizes(S \ {f})

Count(bucket, f) == CopiesIn(<<bucket, f>>, tally)
Bucket(bucket) == {f \in src_tree : Count(bucket, f) > 0}
Exts == {ext_of(f) : f \in src_tree}
WithExt(S, ext) == {f \in S : ext_of(f) = ext}

\* the accumulators of a bucket hold what the files added to it come to
Accumulated(total, stats, bucket) ==
    /\ total = SumSizes(Bucket(bucket))
    /\ DOMAIN stats = {ext_of(f) : f \in Bucket(bucket)}
    /\ \A ext \in DOMAIN stats :
         /\ stats[ext].count = Cardinality(WithExt(Bucket(bucket), ext))
         /\ stats[ext].size = SumSizes(WithExt(Bucket(bucket), ext))

Under(dir_path) == {f \in src_tree : IsPrefix(dir_path, f)}

\* what one add_dir_ignored_stats step added, were it to cover the files of S
AddedIs(S) ==
    /\ total_ignored_size' = total_ignored_size + SumSizes(S)
    /\ \A ext \in Exts :
         /\ stat_of(ignored_ext_stats', ext).count
                = stat_of(ignored_ext_stats, ext).count + Cardinality(WithExt(S, ext))
         /\ stat_of(ignored_ext_stats', ext).size
                = stat_of(ignored_ext_stats, ext).size + SumSizes(WithExt(S, ext))

SelectedIn(bag, r) == {rec.src : rec \in Records(bag, r, Selected)}

(* C5: when a simulation (a dry run, or the script) and then execute mode      *)
(* have both run to completion on the same tree with the same exclusion sets,  *)
(* the files the simulation recorded as "Would copy" are exactly the files     *)
(* execute mode handed to copy2.                                               *)
C5_SameSelection ==
    (run = 2 /\ pc = "done" /\ ended = <<"done">>) =>
        SelectedIn(IF plan[1] = "sim" THEN report ELSE log, 1) = SelectedIn(log, 2)

RECURSIVE Copies(_, _)
Copies(bag, recs) ==
    IF recs = {} THEN 0
    ELSE LET rec == CHOOSE x \in recs : TRUE
         IN  CopiesIn(rec, bag) + Copies(bag, recs \ {rec})

\* how many times the current run handed f to copy2
Attempts(f) ==
    Copies(log, {rec \in Records(log, run, {"Copied", "Failed to copy"}) : rec.src = f})

(* C6: in execute mode a failure of copy2 does not end the run: the only       *)
(* exceptions that end a run are those of find_pendrive and of makedirs; the   *)
(* failure is logged with the file's source, its destination and the cause;    *)
(* no file is handed to copy2 twice, and when the run has completed every file *)
(* that is not excluded has been handed to copy2 exactly once, however many    *)
(* copies failed.                                                              *)
C6_CopyFailureDoesNotStopTheRun ==
    mode = "execute" =>
        /\ pc = "raised" => error \in {"RuntimeError", "OSError", "FileExistsError"}
        /\ \A rec \in Records(log, run, {"Failed to copy"}) :
               /\ rec.src \in src_tree
               /\ normpath(rec.dest) = pendrive_root \o <<"p">> \o Below(rec.src)
               /\ rec.cause = "OSError"
        /\ \A f \in src_tree : Attempts(f) <= 1
        /\ pc = "done" => \A f \in src_tree : NotExcluded(f) => Attempts(f) = 1

C6_Witness ==
    /\ mode = "execute" /\ pc = "done"
    /\ Records(log, run, {"Failed to copy"}) # {}
    /\ Records(log, run, {"Copied"}) # {}

NothingDone ==
    /\ log = EmptyBag /\ dest_dirs = prev_dirs /\ dest_files = prev_files
    /\ total_files = 0 /\ stack = <<>> /\ root = <<>> /\ files = {}

(* C7: find_pendrive is called once per run, before anything else: before it   *)
(* nothing has been walked, logged, created or copied; and when no drive is    *)
(* removable the run ends there with RuntimeError, with nothing walked, logged,*)
(* created or copied.                                                          *)
C7_NoDestinationNoFileOperation ==
    mode \in {"dry", "execute"} =>
        /\ resolves <= 1
        /\ resolves = 0 <=> pc = "start"
        /\ pc = "start" => NothingDone
        /\ (removable = {} /\ pc # "start") =>
               (pc = "raised" /\ error = "RuntimeError" /\ NothingDone)

C7_Witness ==
    /\ mode = "execute" /\ removable = {} /\ pc = "raised" /\ error = "RuntimeError"
    /\ Cardinality(src_tree) = MaxFiles

NoFailure == Records(log, 1, {"Failed to copy"}) \cup Records(log, 2, {"Failed to copy"}) = {}

(* C8: a second run of execute mode never ends because a destination           *)
(* directory or file already exists, and when both runs have completed and no  *)
(* copy has failed the destination after the second run is the destination     *)
(* after the first: the same directories, the same files, the same contents.   *)
C8_ExecuteTwiceIsIdempotent ==
    /\ error # "FileExistsError"
    /\ (run = 2 /\ pc = "done" /\ ended = <<"done">> /\ NoFailure) =>
           /\ dest_dirs = prev_dirs /\ dest_files = prev_files
           /\ SelectedIn(log, 1) = SelectedIn(log, 2)

C8_Witness ==
    /\ run = 2 /\ pc = "done" /\ ended = <<"done">> /\ NoFailure
    /\ \E p \in DOMAIN dest_files : Len(p) = 4
    /\ Cardinality(DOMAIN dest_files) = 2

\* <destination root>/<basename of the source root>/<path below the source root>
Mirrored(dest_root, f) == dest_root \o <<"p">> \o Below(f)

(* C9, as stated: every file copied or reported "Would copy", by execute mode, *)
(* by a dry run and by the simulation script, goes to                          *)
(* <destination root>/<basename of the source root>/<relative path>.           *)
C9_AllMirrorUnderBasename ==
    /\ \A rec \in Records(log, run, {"Copied", "Would copy"}) :
           normpath(rec.dest) = Mirrored(pendrive_root, rec.src)
    /\ \A rec \in Records(report, run, {"Would copy"}) :
           normpath(rec.dest) = Mirrored(<<"SIMULATED_USB">>, rec.src)

(* C9, amended: execute mode and a dry run send every file to                  *)
(* <destination root>/<basename of the source root>/<relative path> (written   *)
(* with a "." component for the files of the source root itself), and execute  *)
(* mode leaves the file's content there; the simulation script reports         *)
(* SIMULATED_USB/<relative path>, without the basename of the source root.     *)
C9_MirrorsRelativePath ==
    /\ \A rec \in Records(log, run, {"Copied", "Would copy"}) :
           /\ normpath(rec.dest) = Mirrored(pendrive_root, rec.src)
           /\ rec.dest = pendrive_root \o <<"p">>
                  \o (IF Len(Below(rec.src)) = 1 THEN <<".">> ELSE <<>>) \o Below(rec.src)
    /\ \A rec \in Records(report, run, {"Would copy"}) :
           normpath(rec.dest) = <<"SIMULATED_USB">> \o Below(rec.src)
    /\ \A p \in DOMAIN dest_files :
           p = Mirrored(pendrive_root, dest_files[p]) /\ dest_files[p] \in src_tree

C9_Witness ==
    /\ mode = "execute" /\ pc = "done"
    /\ \E rec \in Records(log, run, {"Copied"}) : Len(Below(rec.src)) = 2
    /\ \E rec \in Records(log, run, {"Copied"}) : Len(Below(rec.src)) = 1

(* C10: once the destination root is resolved no error halts a run: the only   *)
(* exception that ends a run is the RuntimeError of find_pendrive.             *)
C10_OnlyNoDestinationHalts ==
    pc = "raised" => error = "RuntimeError"

====
